---- MODULE Spec2Model ----
(***************************************************************************)
(* Model of daddle's chunk pool (src/src/chunk_pool.rs) and of its         *)
(* response assembly (src/src/streaming.rs).                               *)
(*                                                                         *)
(* Spec      the pool under concurrency: consumers calling get_chunk and   *)
(*           get_chunks, and the background maintenance task, with the     *)
(*           pool-data RwLock and the stats Mutex.                         *)
(* CancelSpec  Spec with main's abort of the background task.              *)
(* BgSpec    the background task alone (no consumer), with weak fairness.  *)
(* RespSpec  one response assembled over a stocked pool, through           *)
(*           create_optimal_response, build_parallel or into_stream.       *)
(* BuildSpec one ChunkPool::build_response call over a stocked pool.       *)
(* GenSpec   one generated value serialized on one of the generation paths.*)
(* StatsLockSpec  pool operations of one caller, the stats Mutex sound or  *)
(*           poisoned.                                                     *)
(* PollSpec  the stream of into_stream polled, and dropped, by its         *)
(*           consumer.                                                     *)
(* ServiceSpec  Spec without get_chunks, which the service never calls.    *)
(* MainSpec  main: the configuration loaded, the background task spawned   *)
(*           on CHUNK_POOL.                                                *)
(***************************************************************************)
EXTENDS Integers, Naturals, Sequences, FiniteSets, TLC

VARIABLES
    chunks,       \* ChunkPool.chunks: HashMap<ChunkSize, Vec<String>>
    config,       \* ChunkPool.config
    stats,        \* ChunkPool.stats (the value guarded by the Mutex)
    rwWriter,     \* holder of the write guard of ChunkPool.chunks, or "none"
    rwReaders,    \* number of read guards of ChunkPool.chunks held, per process
    statsHolder,  \* holder of the guard of ChunkPool.stats, or "none", or
                  \* "poisoned": free, and lock() returns Err
    cs,           \* per consumer: position and locals of its current call
    bg,           \* position and locals of background_maintenance
    nextId,       \* identity given to the next generated fragment
    hist,         \* history: what calls returned, how many calls completed
    resp          \* one response being assembled: position, locals and output

vars == <<chunks, config, stats, rwWriter, rwReaders, statsHolder, cs, bg, nextId, hist, resp>>

----------------------------------------------------------------------------
(* Bounds of the model *)

\* total number of get_chunk / get_chunks calls the consumers make
MaxCalls == 2
\* number of operations the caller of StatsLockSpec makes
MaxOps == 2
\* largest count argument passed to get_chunks
MaxCount == 2

Consumers == {"c1", "c2"}
BgTask == "bg"
Procs == Consumers \cup {BgTask}

\* values of ChunkPoolConfig the pool is constructed with
PoolConfigs ==
    [max_memory_mb : {0, 1}, min_chunks_per_size : {1, 2},
     background_generation_interval_ms : {1000}]

\* values of ChunkPoolConfig for the background task running alone
BgConfigs ==
    [max_memory_mb : {0, 1, 8, 128}, min_chunks_per_size : {1, 2, 4, 5},
     background_generation_interval_ms : {50, 1000}]

----------------------------------------------------------------------------
(* ChunkSize *)

ChunkSize == {"Small", "Medium", "Large", "XLarge"}

all == <<"Small", "Medium", "Large", "XLarge">>

target_bytes(size) ==
    CASE size = "Small"  -> 1024
      [] size = "Medium" -> 10240
      [] size = "Large"  -> 102400
      [] size = "XLarge" -> 1048576

(* A fragment is a serialized JSON value: its identity and its byte length.
   Identities 1, 2, ... are given to the fragments pushed into the pool;
   identity 0 marks a value generated for a caller and never pooled. *)
Fragment(id, len) == [id |-> id, len |-> len]

\* Byte lengths serde_json::to_string(generate_array_element(n)) can have:
\* five of the six choices ignore n (a number, a short array, ...), the
\* sixth grows a payload up to n bytes.
GenLens(n) == {20, n}

\* Outcomes of one generate_chunks_parallel(size, count) call: count values,
\* here all of one of the lengths of GenLens.
BatchLens(size, count) == {[i \in 1..count |-> len] : len \in GenLens(target_bytes(size))}

RECURSIVE SumLens(_)
SumLens(v) == IF v = <<>> THEN 0 ELSE Head(v).len + SumLens(Tail(v))

Front(v) == SubSeq(v, 1, Len(v) - 1)
Last(v) == v[Len(v)]

SatSub(a, b) == IF a >= b THEN a - b ELSE 0

Min(a, b) == IF a <= b THEN a ELSE b

----------------------------------------------------------------------------
(* ChunkPool: pure parts *)

ChunkPoolStatsDefault ==
    [total_chunks |-> 0, memory_usage_bytes |-> 0, cache_hits |-> 0,
     cache_misses |-> 0, background_generations |-> 0]

EmptyMap == [s \in {} |-> <<>>]

\* an initialization that does not test chunks.is_empty()
LazyInitializeAlways(ch) == [s \in ChunkSize |-> <<>>]

\* an initialization whose loop stops one class short
LazyInitializeSkipsLast(ch) ==
    IF DOMAIN ch = {} THEN [s \in ChunkSize \ {all[Len(all)]} |-> <<>>] ELSE ch

\* the body of lazy_initialize, under the write guard
lazy_initialize(ch) ==
    IF DOMAIN ch = {} THEN [s \in ChunkSize |-> <<>>] ELSE ch

\* chunks.get(&size).map(|v| v.len()).unwrap_or(0)
CountOf(ch, size) == IF size \in DOMAIN ch THEN Len(ch[size]) ELSE 0

BytesOf(ch, size) == IF size \in DOMAIN ch THEN SumLens(ch[size]) ELSE 0

estimate_memory_usage(ch) ==
    BytesOf(ch, "Small") + BytesOf(ch, "Medium") + BytesOf(ch, "Large") + BytesOf(ch, "XLarge")

TotalChunks(ch) ==
    CountOf(ch, "Small") + CountOf(ch, "Medium") + CountOf(ch, "Large") + CountOf(ch, "XLarge")

max_bytes == config.max_memory_mb * 1024 * 1024

\* the budget test letting a pool that has just reached its budget grow
HasMemoryInclusive(current_usage) == current_usage <= max_bytes

has_memory_available(current_usage) == current_usage < max_bytes

\* a scan that stops at the first class
AnyLowFirstClass(ch) == CountOf(ch, all[1]) < config.min_chunks_per_size

\* a scan that takes only an empty class for a class running low
AnyLowEmptyOnly(ch) == \E i \in 1..Len(all) : CountOf(ch, all[i]) = 0

\* second half of should_generate_chunks: some class is running low
AnyLow(ch) == \E i \in 1..Len(all) : CountOf(ch, all[i]) < config.min_chunks_per_size

\* a `needed` vector whose counts are the whole deficit
RECURSIVE NeededFromUncapped(_, _)
NeededFromUncapped(ch, i) ==
    IF i > Len(all) THEN <<>>
    ELSE LET current_count == CountOf(ch, all[i])
             rest == NeededFromUncapped(ch, i + 1)
         IN IF current_count < config.min_chunks_per_size
            THEN <<[size |-> all[i],
                    count |-> config.min_chunks_per_size - current_count]>> \o rest
            ELSE rest

\* a `needed` vector that lists the deficient classes last class first
RECURSIVE NeededFromLastFirst(_, _)
NeededFromLastFirst(ch, i) ==
    IF i > Len(all) THEN <<>>
    ELSE LET current_count == CountOf(ch, all[i])
             rest == NeededFromLastFirst(ch, i + 1)
         IN IF current_count < config.min_chunks_per_size
            THEN rest \o <<[size |-> all[i],
                            count |-> Min(config.min_chunks_per_size - current_count, 3)]>>
            ELSE rest

\* a `needed` vector that asks for a full batch whatever the deficit
RECURSIVE NeededFromFullBatch(_, _)
NeededFromFullBatch(ch, i) ==
    IF i > Len(all) THEN <<>>
    ELSE LET current_count == CountOf(ch, all[i])
             rest == NeededFromFullBatch(ch, i + 1)
         IN IF current_count < config.min_chunks_per_size
            THEN <<[size |-> all[i], count |-> 3]>> \o rest
            ELSE rest

\* the `needed` vector of generate_background_chunks, in ChunkSize::all() order
RECURSIVE NeededFrom(_, _)
NeededFrom(ch, i) ==
    IF i > Len(all) THEN <<>>
    ELSE LET current_count == CountOf(ch, all[i])
             rest == NeededFrom(ch, i + 1)
         IN IF current_count < config.min_chunks_per_size
            THEN <<[size |-> all[i],
                    count |-> Min(config.min_chunks_per_size - current_count, 3)]>> \o rest
            ELSE rest

\* chunk_vec.pop(): the fragment returned (a sequence of 0 or 1 fragment)
PopResult(v) == IF v = <<>> THEN <<>> ELSE <<Last(v)>>

\* a read of the last fragment that leaves it in the vector
PopRestKeeps(v) == v

\* a pop that takes the last two fragments off the vector
PopRestTwo(v) == IF Len(v) >= 2 THEN SubSeq(v, 1, Len(v) - 2) ELSE <<>>

\* chunk_vec.pop(): the vector left behind
PopRest(v) == IF v = <<>> THEN <<>> ELSE Front(v)

\* a stats update that leaves the total_chunks gauge as it is on a hit
GetChunkStatsGaugeKept(st, popped) ==
    IF popped # <<>>
    THEN [st EXCEPT !.cache_hits = @ + 1]
    ELSE [st EXCEPT !.cache_misses = @ + 1]

\* a stats update that forgets the miss
GetChunkStatsMissLost(st, popped) ==
    IF popped # <<>>
    THEN [st EXCEPT !.cache_hits = @ + 1, !.total_chunks = SatSub(@, 1)]
    ELSE st

\* the stats update of get_chunk for a popped option
GetChunkStats(st, popped) ==
    IF popped # <<>>
    THEN [st EXCEPT !.cache_hits = @ + 1, !.total_chunks = SatSub(@, 1)]
    ELSE [st EXCEPT !.cache_misses = @ + 1]

\* the stats update of get_chunks
GetChunksStats(st, available, remaining) ==
    IF remaining > 0
    THEN [st EXCEPT !.cache_misses = @ + remaining, !.cache_hits = @ + available]
    ELSE [st EXCEPT !.cache_hits = @ + available]

\* fragments with the given lengths and consecutive fresh identities
FreshChunks(lens) == [i \in 1..Len(lens) |-> Fragment(nextId + i - 1, lens[i])]

\* values generated for a caller, with the given lengths
Unpooled(lens) == [i \in 1..Len(lens) |-> Fragment(0, lens[i])]

\* a pop loop that lets its last fragment go
RECURSIVE PopNLosesLast(_, _)
PopNLosesLast(v, n) ==
    IF n <= 1 THEN <<>> ELSE <<Last(v)>> \o PopNLosesLast(Front(v), n - 1)

\* the n most recently pushed fragments of v, in pop order
RECURSIVE PopN(_, _)
PopN(v, n) == IF n = 0 THEN <<>> ELSE <<Last(v)>> \o PopN(Front(v), n - 1)

----------------------------------------------------------------------------
(* Locks *)

WriteFree == rwWriter = "none" /\ \A p \in Procs : rwReaders[p] = 0
ReadFree == rwWriter = "none"
StatsFree == statsHolder = "none"

----------------------------------------------------------------------------
(* History *)

Deliver(d, frags) ==
    [id \in DOMAIN d \cup ({frags[i].id : i \in 1..Len(frags)} \ {0}) |->
        (IF id \in DOMAIN d THEN d[id] ELSE 0)
        + Cardinality({i \in 1..Len(frags) : frags[i].id = id})]

HistInit ==
    [delivered |-> [id \in {} |-> 0],  \* fragment id -> times returned to a caller
     calls |-> 0,                      \* calls started
     gcSome |-> 0,                     \* completed get_chunk calls that returned Some
     gcNone |-> 0,                     \* completed get_chunk calls that returned None
     batch |-> 0]                      \* sum of count over completed get_chunks calls

\* no response is being assembled
NoResponse == [pc |-> "none"]

Idle == [pc |-> "idle", size |-> "Small", count |-> 0, available |-> 0, result |-> <<>>]

BgInit ==
    [pc |-> "start", fast_startup |-> TRUE, startup_rounds |-> 0, interval_ms |-> 0,
     current_usage |-> 0, needed |-> <<>>, new_chunks |-> <<>>]

Init ==
    /\ chunks = EmptyMap
    /\ config \in PoolConfigs
    /\ stats = ChunkPoolStatsDefault
    /\ rwWriter = "none"
    /\ rwReaders = [p \in Procs |-> 0]
    /\ statsHolder = "none"
    /\ cs = [p \in Consumers |-> Idle]
    /\ bg = BgInit
    /\ nextId = 1
    /\ hist = HistInit
    /\ resp = NoResponse

----------------------------------------------------------------------------
(* ChunkPool::get_chunk, called by consumer p *)

\* the call and its self.lazy_initialize(): write guard taken and dropped
CallGetChunk(p) ==
    /\ cs[p].pc = "idle"
    /\ hist.calls < MaxCalls
    /\ WriteFree
    /\ chunks' = lazy_initialize(chunks)
    /\ \E size \in ChunkSize :
         cs' = [cs EXCEPT ![p] = [pc |-> "gc_pop", size |-> size, count |-> 1, available |-> 0,
                                  result |-> <<>>]]
    /\ hist' = [hist EXCEPT !.calls = @ + 1]
    /\ UNCHANGED <<resp, config, stats, rwWriter, rwReaders, statsHolder, bg, nextId>>

\* self.chunks.write(), chunks.get_mut(&size)?, chunk_vec.pop()
GetChunkPop(p) ==
    /\ cs[p].pc = "gc_pop"
    /\ WriteFree
    /\ LET size == cs[p].size IN
       IF size \notin DOMAIN chunks
       THEN \* `?`: None is returned, the guard is dropped, no counter is touched
            /\ cs' = [cs EXCEPT ![p] = Idle]
            /\ hist' = [hist EXCEPT !.gcNone = @ + 1]
            /\ UNCHANGED <<chunks, rwWriter>>
       ELSE /\ chunks' = [chunks EXCEPT ![size] = PopRest(@)]
            /\ cs' = [cs EXCEPT ![p].pc = "gc_stats", ![p].result = PopResult(chunks[size])]
            /\ rwWriter' = p
            /\ UNCHANGED hist
    /\ UNCHANGED <<resp, config, stats, rwReaders, statsHolder, bg, nextId>>

\* self.stats.lock() while the write guard is held, the counters, the return
GetChunkStatsStep(p) ==
    /\ cs[p].pc = "gc_stats"
    /\ StatsFree
    /\ stats' = GetChunkStats(stats, cs[p].result)
    /\ rwWriter' = "none"
    /\ hist' = [hist EXCEPT !.delivered = Deliver(@, cs[p].result),
                            !.gcSome = IF cs[p].result # <<>> THEN @ + 1 ELSE @,
                            !.gcNone = IF cs[p].result = <<>> THEN @ + 1 ELSE @]
    /\ cs' = [cs EXCEPT ![p] = Idle]
    /\ UNCHANGED <<resp, chunks, config, rwReaders, statsHolder, bg, nextId>>

----------------------------------------------------------------------------
(* ChunkPool::get_chunks, called by consumer p *)

\* the call: self.chunks.write(), then the pop loop over `available`
CallGetChunks(p) ==
    /\ cs[p].pc = "idle"
    /\ hist.calls < MaxCalls
    /\ WriteFree
    /\ rwWriter' = p
    /\ \E size \in ChunkSize, count \in 0..MaxCount :
         LET chunk_vec == IF size \in DOMAIN chunks THEN chunks[size] ELSE <<>>
             available == Min(Len(chunk_vec), count)
         IN /\ chunks' = IF size \in DOMAIN chunks
                         THEN [chunks EXCEPT ![size] = SubSeq(@, 1, Len(@) - available)]
                         ELSE chunks
            /\ cs' = [cs EXCEPT ![p] = [pc |-> IF count - available > 0
                                               THEN "gcs_gen" ELSE "gcs_stats",
                                        size |-> size, count |-> count,
                                        available |-> available,
                                        result |-> PopN(chunk_vec, available)]]
    /\ hist' = [hist EXCEPT !.calls = @ + 1]
    /\ UNCHANGED <<resp, config, stats, rwReaders, statsHolder, bg, nextId>>

\* a shortfall generated for the whole count
GetChunksGenerateCount(p) ==
    /\ cs[p].pc = "gcs_gen"
    /\ \E lens \in BatchLens(cs[p].size, cs[p].count) :
          cs' = [cs EXCEPT ![p].result = @ \o Unpooled(lens), ![p].pc = "gcs_stats"]
    /\ UNCHANGED <<resp, chunks, config, stats, rwWriter, rwReaders, statsHolder, bg, nextId, hist>>

\* generate_chunks_parallel(size, remaining), the write guard still held
GetChunksGenerate(p) ==
    /\ cs[p].pc = "gcs_gen"
    /\ LET remaining == cs[p].count - Len(cs[p].result) IN
       \E lens \in BatchLens(cs[p].size, remaining) :
          cs' = [cs EXCEPT ![p].result = @ \o Unpooled(lens), ![p].pc = "gcs_stats"]
    /\ UNCHANGED <<resp, chunks, config, stats, rwWriter, rwReaders, statsHolder, bg, nextId, hist>>

\* self.stats.lock(), the counters, the return
GetChunksStatsStep(p) ==
    /\ cs[p].pc = "gcs_stats"
    /\ StatsFree
    /\ stats' = GetChunksStats(stats, cs[p].available, cs[p].count - cs[p].available)
    /\ rwWriter' = "none"
    /\ hist' = [hist EXCEPT !.delivered = Deliver(@, cs[p].result),
                            !.batch = @ + cs[p].count]
    /\ cs' = [cs EXCEPT ![p] = Idle]
    /\ UNCHANGED <<resp, chunks, config, rwReaders, statsHolder, bg, nextId>>

----------------------------------------------------------------------------
(* ChunkPool::background_maintenance *)

\* self.lazy_initialize() at the head of background_maintenance
BgStart ==
    /\ bg.pc = "start"
    /\ WriteFree
    /\ chunks' = lazy_initialize(chunks)
    /\ bg' = [bg EXCEPT !.pc = "sleep"]
    /\ UNCHANGED <<resp, config, stats, rwWriter, rwReaders, statsHolder, cs, nextId, hist>>

\* interval_ms and tokio::time::sleep(interval_ms).await
BgSleep ==
    /\ bg.pc = "sleep"
    /\ bg' = [bg EXCEPT !.pc = "check_mem",
                        !.interval_ms = IF bg.fast_startup THEN 100
                                        ELSE config.background_generation_interval_ms]
    /\ UNCHANGED <<resp, chunks, config, stats, rwWriter, rwReaders, statsHolder, cs, nextId, hist>>

\* a budget test that the startup phase skips
BgCheckMemoryStartupSkips ==
    /\ bg.pc = "check_mem"
    /\ ReadFree
    /\ LET current_usage == estimate_memory_usage(chunks) IN
       bg' = IF bg.fast_startup \/ has_memory_available(current_usage)
             THEN [bg EXCEPT !.pc = "check_low", !.current_usage = current_usage]
             ELSE [bg EXCEPT !.pc = "sleep", !.current_usage = current_usage,
                             !.fast_startup = FALSE]
    /\ UNCHANGED <<resp, chunks, config, stats, rwWriter, rwReaders, statsHolder, cs, nextId, hist>>

\* should_generate_chunks, first half: has_memory_available under a read guard;
\* when it fails the else-branch of the loop runs
BgCheckMemory ==
    /\ bg.pc = "check_mem"
    /\ ReadFree
    /\ LET current_usage == estimate_memory_usage(chunks) IN
       bg' = IF has_memory_available(current_usage)
             THEN [bg EXCEPT !.pc = "check_low", !.current_usage = current_usage]
             ELSE [bg EXCEPT !.pc = "sleep", !.current_usage = current_usage,
                             !.fast_startup = FALSE]
    /\ UNCHANGED <<resp, chunks, config, stats, rwWriter, rwReaders, statsHolder, cs, nextId, hist>>

\* should_generate_chunks, second half: the scan for a class below the minimum
BgCheckLow ==
    /\ bg.pc = "check_low"
    /\ ReadFree
    /\ bg' = IF AnyLow(chunks)
             THEN [bg EXCEPT !.pc = "needed"]
             ELSE [bg EXCEPT !.pc = "sleep", !.fast_startup = FALSE]
    /\ UNCHANGED <<resp, chunks, config, stats, rwWriter, rwReaders, statsHolder, cs, nextId, hist>>

\* generate_background_chunks: the `needed` vector under a read guard, then
\* generate_chunks_parallel(size, count) for its first entry (take(1))
BgNeeded ==
    /\ bg.pc = "needed"
    /\ ReadFree
    /\ LET chunks_to_generate == NeededFrom(chunks, 1) IN
       IF chunks_to_generate # <<>>
       THEN LET first == Head(chunks_to_generate) IN
            \E lens \in BatchLens(first.size, first.count) :
               /\ bg' = [bg EXCEPT !.pc = "insert", !.needed = chunks_to_generate,
                                   !.new_chunks = FreshChunks(lens)]
               /\ nextId' = nextId + first.count
       ELSE /\ bg' = [bg EXCEPT !.pc = "sleep", !.startup_rounds = @ + 1]
            /\ UNCHANGED nextId
    /\ UNCHANGED <<resp, chunks, config, stats, rwWriter, rwReaders, statsHolder, cs, hist>>

\* an insert whose write guard outlives the block and is held over the yield
BgInsertKeepsGuard ==
    /\ bg.pc = "insert"
    /\ WriteFree
    /\ LET size == Head(bg.needed).size IN
       chunks' = IF size \in DOMAIN chunks
                 THEN [chunks EXCEPT ![size] = @ \o bg.new_chunks]
                 ELSE [s \in DOMAIN chunks \cup {size} |->
                          IF s = size THEN bg.new_chunks ELSE chunks[s]]
    /\ rwWriter' = BgTask
    /\ bg' = [bg EXCEPT !.pc = "yield"]
    /\ UNCHANGED <<resp, config, stats, rwReaders, statsHolder, cs, nextId, hist>>

\* chunks.entry(size).or_insert_with(Vec::new).extend(new_chunks)
BgInsert ==
    /\ bg.pc = "insert"
    /\ WriteFree
    /\ LET size == Head(bg.needed).size IN
       chunks' = IF size \in DOMAIN chunks
                 THEN [chunks EXCEPT ![size] = @ \o bg.new_chunks]
                 ELSE [s \in DOMAIN chunks \cup {size} |->
                          IF s = size THEN bg.new_chunks ELSE chunks[s]]
    /\ bg' = [bg EXCEPT !.pc = "yield"]
    /\ UNCHANGED <<resp, config, stats, rwWriter, rwReaders, statsHolder, cs, nextId, hist>>

\* tokio::task::yield_now().await
BgYield ==
    /\ bg.pc = "yield"
    /\ bg' = [bg EXCEPT !.pc = "stats_lock"]
    /\ UNCHANGED <<resp, chunks, config, stats, rwWriter, rwReaders, statsHolder, cs, nextId, hist>>

\* update_stats: self.stats.lock()
BgStatsLock ==
    /\ bg.pc = "stats_lock"
    /\ StatsFree
    /\ statsHolder' = BgTask
    /\ bg' = [bg EXCEPT !.pc = "stats_read"]
    /\ UNCHANGED <<resp, chunks, config, stats, rwWriter, rwReaders, cs, nextId, hist>>

\* update_stats: self.chunks.read() and total_chunks, the stats guard held
BgStatsRead ==
    /\ bg.pc = "stats_read"
    /\ ReadFree
    /\ rwReaders' = [rwReaders EXCEPT ![BgTask] = @ + 1]
    /\ stats' = [stats EXCEPT !.total_chunks = TotalChunks(chunks)]
    /\ bg' = [bg EXCEPT !.pc = "stats_mem"]
    /\ UNCHANGED <<resp, chunks, config, rwWriter, statsHolder, cs, nextId, hist>>

\* update_stats: estimate_memory_usage takes its own read guard of chunks
\* while update_stats still holds the first one, and sums the lengths
BgStatsMemory ==
    /\ bg.pc = "stats_mem"
    /\ ReadFree
    /\ rwReaders' = [rwReaders EXCEPT ![BgTask] = @ + 1]
    /\ stats' = [stats EXCEPT !.memory_usage_bytes = estimate_memory_usage(chunks)]
    /\ bg' = [bg EXCEPT !.pc = "stats_drop"]
    /\ UNCHANGED <<resp, chunks, config, rwWriter, statsHolder, cs, nextId, hist>>

\* update_stats: estimate_memory_usage returns and the block ends: both read
\* guards and the stats guard are dropped
BgStatsDrop ==
    /\ bg.pc = "stats_drop"
    /\ rwReaders' = [rwReaders EXCEPT ![BgTask] = 0]
    /\ statsHolder' = "none"
    /\ bg' = [bg EXCEPT !.pc = "count"]
    /\ UNCHANGED <<resp, chunks, config, stats, rwWriter, cs, nextId, hist>>

\* stats.background_generations += 1, then startup_rounds += 1 in the loop
BgCount ==
    /\ bg.pc = "count"
    /\ StatsFree
    /\ stats' = [stats EXCEPT !.background_generations = @ + 1]
    /\ bg' = [bg EXCEPT !.pc = "sleep", !.startup_rounds = @ + 1,
                        !.needed = <<>>, !.new_chunks = <<>>]
    /\ UNCHANGED <<resp, chunks, config, rwWriter, rwReaders, statsHolder, cs, nextId, hist>>

BgNext ==
    \/ BgStart
    \/ BgSleep
    \/ BgCheckMemory
    \/ BgCheckLow
    \/ BgNeeded
    \/ BgInsert
    \/ BgYield
    \/ BgStatsLock
    \/ BgStatsRead
    \/ BgStatsMemory
    \/ BgStatsDrop
    \/ BgCount

ConsumerNext ==
    \E p \in Consumers :
        \/ CallGetChunk(p)
        \/ GetChunkPop(p)
        \/ GetChunkStatsStep(p)
        \/ CallGetChunks(p)
        \/ GetChunksGenerate(p)
        \/ GetChunksStatsStep(p)

Next == ConsumerNext \/ BgNext

Spec == Init /\ [][Next]_vars

\* the pool as the service drives it: get_chunk callers and the background
\* task (nothing in the service calls get_chunks)
GetChunkNext ==
    \E p \in Consumers :
        \/ CallGetChunk(p)
        \/ GetChunkPop(p)
        \/ GetChunkStatsStep(p)

ServiceNext == GetChunkNext \/ BgNext

ServiceSpec == Init /\ [][ServiceNext]_vars

\* a cancellation that stops the task wherever it is
BgAbortAnywhere ==
    /\ bg.pc # "cancelled"
    /\ bg' = [BgInit EXCEPT !.pc = "cancelled"]
    /\ UNCHANGED <<resp, chunks, config, stats, rwWriter, rwReaders, statsHolder, cs, nextId, hist>>

\* background_task.abort() in main, on the running task: the future is
\* dropped, with its locals, where it is suspended, in
\* tokio::time::sleep(..).await or in tokio::task::yield_now().await
BgAbort ==
    /\ bg.pc \in {"sleep", "yield"}
    /\ bg' = [BgInit EXCEPT !.pc = "cancelled"]
    /\ UNCHANGED <<resp, chunks, config, stats, rwWriter, rwReaders, statsHolder, cs, nextId, hist>>

CancelNext == Next \/ BgAbort

CancelSpec == Init /\ [][CancelNext]_vars

BgSpecInit ==
    /\ chunks = EmptyMap
    /\ config \in BgConfigs
    /\ stats = ChunkPoolStatsDefault
    /\ rwWriter = "none"
    /\ rwReaders = [p \in Procs |-> 0]
    /\ statsHolder = "none"
    /\ cs = [p \in Consumers |-> Idle]
    /\ bg = BgInit
    /\ nextId = 1
    /\ hist = HistInit
    /\ resp = NoResponse

\* the task is the only one scheduled, and tokio keeps polling it
BgSpec == BgSpecInit /\ [][BgNext]_vars /\ WF_vars(BgNext)

----------------------------------------------------------------------------
(* Response assembly: ChunkPool::build_response and src/src/streaming.rs *)

\* byte lengths of the string literals of the envelope
OpenLen == 19
PoolMetaLen == 56
ParMetaLen == 54
StreamMetaLen == 55
ActualSizeLen == 15
ChunkCountLen == 15
CloseLen == 2
StreamTailLen == 19

\* the length of a value far larger than asked for (a deep random object),
\* as the pool can hold one
DeepObjectLen == 120000

\* lengths of one array element generated on a pool miss, asked to be n bytes
ElementLens(n) == GenLens(n)

\* lengths of serde_json::to_string(generate_payload(n)): the payload grows
\* until it is n bytes long, the last addition overshooting
PayloadLens(n) == {n + 12, 3 * n + 100}

\* usize::to_string().len()
RECURSIVE Digits(_)
Digits(n) == IF n < 10 THEN 1 ELSE 1 + Digits(n \div 10)

div_ceil(a, b) == (a \div b) + (IF a % b # 0 THEN 1 ELSE 0)

\* thresholds that include their boundary in the lower strategy
ForSizeInclusive(size) ==
    IF size <= 10000 THEN "Direct"
    ELSE IF size <= 1000000 THEN "Fast"
    ELSE "Streaming"

\* ResponseStrategy::for_size
for_size(size) ==
    IF size < 10000 THEN "Direct"
    ELSE IF size < 1000000 THEN "Fast"
    ELSE "Streaming"

\* FastGarbleResponse::build: which builder serves a Fast response
FastBuild(target_size) ==
    IF target_size < 100000 THEN "build_response" ELSE "build_parallel"

\* build_response: the class asked of the pool for the remaining budget
BuildChunkSize(remaining) ==
    IF remaining >= target_bytes("XLarge") THEN "XLarge"
    ELSE IF remaining >= target_bytes("Large") THEN "Large"
    ELSE IF remaining >= target_bytes("Medium") THEN "Medium"
    ELSE "Small"

\* a class choice that needs more than the nominal size
PooledChunkSizeStrict(target_size) ==
    IF target_size > target_bytes("XLarge") THEN "XLarge"
    ELSE IF target_size > target_bytes("Large") THEN "Large"
    ELSE IF target_size > target_bytes("Medium") THEN "Medium"
    ELSE "Small"

\* get_pooled_chunk: the class asked of the pool for a fragment of target_size
PooledChunkSize(target_size) ==
    IF target_size >= target_bytes("XLarge") THEN "XLarge"
    ELSE IF target_size >= target_bytes("Large") THEN "Large"
    ELSE IF target_size >= target_bytes("Medium") THEN "Medium"
    ELSE "Small"

\* StreamingGarbleResponse::new: the adaptive chunk size
StreamChunkSize(target_size) ==
    IF target_size > 10000000 THEN target_bytes("XLarge")
    ELSE IF target_size > 1000000 THEN target_bytes("Large")
    ELSE target_bytes("Medium")

\* a fallback sized to the whole remainder
FallbackSizeUncapped(remaining) == remaining

\* build_response on a miss: the size asked of the generator
FallbackSize(remaining) == Min(remaining, target_bytes("Small"))

\* a loop without its cap on the number of fragments
BuildWhileNoCap(remaining, chunk_count) == remaining > 500

\* a loop that does not look at the remaining budget
BuildWhileNoBudget(remaining, chunk_count) == chunk_count < 1000

\* the while condition of build_response
BuildWhile(remaining, chunk_count) == remaining > 500 /\ chunk_count < 1000

\* the safety break at the end of the loop body of build_response
BuildBreak(len, target_size) == len > target_size * 2

\* a loop that does not look at the expected number of fragments
StreamWhileNoTotal(remaining, chunk_count, total_chunks) == remaining > 500

\* the while condition of into_stream
StreamWhile(remaining, chunk_count, total_chunks) ==
    remaining > 500 /\ chunk_count < total_chunks

(* A whole get_chunk call when no other process runs: lazy_initialize, the
   pop and the counters. *)
GetChunkResult(ch, size) ==
    LET c == lazy_initialize(ch) IN IF size \in DOMAIN c THEN PopResult(c[size]) ELSE <<>>

GetChunkPool(ch, size) ==
    LET c == lazy_initialize(ch) IN
    IF size \in DOMAIN c THEN [c EXCEPT ![size] = PopRest(@)] ELSE c

GetChunkCounters(st, ch, size) ==
    LET c == lazy_initialize(ch) IN
    IF size \in DOMAIN c THEN GetChunkStats(st, PopResult(c[size])) ELSE st

NoMeta ==
    [generated_by |-> "none", target_size |-> 0, actual_size |-> 0, chunk_count |-> 0,
     streaming |-> FALSE]

\* where each entry point starts
EntryPc(entry) == IF entry = "create_optimal_response" THEN "call" ELSE entry

NewResponse(entry, target_size) ==
    [pc |-> EntryPc(entry), entry |-> entry, target_size |-> target_size,
     strategy |-> "none", remaining |-> 0, chunk_count |-> 0, first |-> TRUE,
     chunk_size |-> 0, total_chunks |-> 0, slices |-> <<>>,
     pieces |-> <<>>, len |-> 0, last_len |-> 0, meta |-> NoMeta,
     asked |-> "none",     \* class passed to get_chunk in the last iteration
     asked_at |-> 0,       \* `remaining` at the head of that iteration
     gen_size |-> 0]       \* size passed to the generator on its miss, else 0

\* the calls of the strategy engine, each with its target size
Requests ==
    ({"create_optimal_response"} \X {0, 9999, 10000, 99999, 100000, 999999, 1000000, 2000000})
    \cup ({"build_parallel"} \X {0, 100000, 250000})
    \cup ({"stream_new"} \X {0, 400, 501, 25000, 10000001})

\* the direct calls of ChunkPool::build_response, each with its target size
BuildRequests == {"build_response"} \X {0, 1023, 1024, 1500, 50000}

\* pool contents a response can find: never initialized, one nominal
\* fragment per class, and a mixed stock
RespPools ==
    { EmptyMap,
      [s \in ChunkSize |-> <<Fragment(1, target_bytes(s))>>],
      [s \in ChunkSize |->
          CASE s = "Small"  -> <<Fragment(1, 20)>>
            [] s = "Medium" -> <<Fragment(2, 10240), Fragment(3, DeepObjectLen)>>
            [] s = "Large"  -> <<Fragment(4, 20), Fragment(5, 102400)>>
            [] s = "XLarge" -> <<>>] }

\* ChunkPoolConfig::default(), the configuration of CHUNK_POOL
DefaultConfig ==
    [max_memory_mb |-> 128, min_chunks_per_size |-> 5,
     background_generation_interval_ms |-> 1000]

RespInitFor(requests) ==
    /\ chunks \in RespPools
    /\ config = DefaultConfig
    /\ stats = ChunkPoolStatsDefault
    /\ rwWriter = "none"
    /\ rwReaders = [p \in Procs |-> 0]
    /\ statsHolder = "none"
    /\ cs = [p \in Consumers |-> Idle]
    /\ bg = BgInit
    /\ nextId = 1
    /\ hist = HistInit
    /\ \E r \in requests : resp = NewResponse(r[1], r[2])

RespInit == RespInitFor(Requests)

BuildInit == RespInitFor(BuildRequests)

RespFrame == UNCHANGED <<config, rwWriter, rwReaders, statsHolder, cs, bg, nextId, hist>>

\* create_optimal_response: the match on ResponseStrategy::for_size
CreateOptimalResponse ==
    /\ resp.pc = "call"
    /\ LET strategy == for_size(resp.target_size) IN
       resp' = [resp EXCEPT !.strategy = strategy,
                            !.pc = CASE strategy = "Direct" -> "direct"
                                     [] strategy = "Fast" -> FastBuild(resp.target_size)
                                     [] strategy = "Streaming" -> "stream_new"]
    /\ UNCHANGED <<chunks, stats>>
    /\ RespFrame

\* the Direct arm: generate_payload(target_size), serialized
DirectGenerate ==
    /\ resp.pc = "direct"
    /\ \E len \in PayloadLens(resp.target_size) :
         resp' = [resp EXCEPT !.pc = "done", !.pieces = <<"object">>, !.len = len]
    /\ UNCHANGED <<chunks, stats>>
    /\ RespFrame

\* build_response up to the loop: lazy_initialize, the small-target return,
\* the opening prefix
BuildResponseStart ==
    /\ resp.pc = "build_response"
    /\ chunks' = lazy_initialize(chunks)
    /\ IF resp.target_size < target_bytes("Small")
       THEN \E len \in PayloadLens(resp.target_size) :
              resp' = [resp EXCEPT !.pc = "done", !.pieces = <<"object">>, !.len = len]
       ELSE resp' = [resp EXCEPT !.pc = "br_loop", !.pieces = <<"open">>, !.len = OpenLen,
                                 !.remaining = resp.target_size, !.chunk_count = 0,
                                 !.first = TRUE]
    /\ UNCHANGED stats
    /\ RespFrame

\* one iteration of the loop of build_response
BuildResponseIter ==
    /\ resp.pc = "br_loop"
    /\ BuildWhile(resp.remaining, resp.chunk_count)
    /\ LET chunk_size == BuildChunkSize(resp.remaining)
           got == GetChunkResult(chunks, chunk_size)
           sep == IF resp.first THEN <<>> ELSE <<"comma">>
       IN /\ chunks' = GetChunkPool(chunks, chunk_size)
          /\ stats' = GetChunkCounters(stats, chunks, chunk_size)
          /\ \E flen \in (IF got # <<>> THEN {got[1].len}
                          ELSE ElementLens(FallbackSize(resp.remaining))) :
               LET len == resp.len + Len(sep) + flen IN
               resp' = [resp EXCEPT !.asked = chunk_size,
                                    !.asked_at = resp.remaining,
                                    !.gen_size = IF got # <<>> THEN 0
                                                 ELSE FallbackSize(resp.remaining),
                                    !.pieces = @ \o sep \o <<"frag">>,
                                    !.len = len,
                                    !.last_len = flen,
                                    !.first = FALSE,
                                    !.remaining = SatSub(@, flen),
                                    !.chunk_count = @ + 1,
                                    !.pc = IF BuildBreak(len, resp.target_size)
                                           THEN "br_close" ELSE "br_loop"]
    /\ RespFrame

\* build_response after the loop: the metadata suffix
BuildResponseClose ==
    /\ \/ resp.pc = "br_close"
       \/ resp.pc = "br_loop" /\ ~BuildWhile(resp.remaining, resp.chunk_count)
    /\ LET measured == resp.len + PoolMetaLen + Digits(resp.target_size) + ActualSizeLen IN
       resp' = [resp EXCEPT !.pc = "done",
                            !.pieces = @ \o <<"close">>,
                            !.len = measured + Digits(measured) + ChunkCountLen
                                    + Digits(resp.chunk_count) + CloseLen,
                            !.meta = [generated_by |-> "chunk_pool",
                                      target_size |-> resp.target_size,
                                      actual_size |-> measured,
                                      chunk_count |-> resp.chunk_count,
                                      streaming |-> FALSE]]
    /\ UNCHANGED <<chunks, stats>>
    /\ RespFrame

----------------------------------------------------------------------------
(* FastGarbleResponse::build_parallel *)

Injective(f) == \A a, b \in DOMAIN f : f[a] = f[b] => a = b

\* the counters after `hits` get_chunk calls that popped and `misses` that did not
ParCounters(st, hits, misses) ==
    [st EXCEPT !.cache_hits = @ + hits, !.cache_misses = @ + misses,
               !.total_chunks = SatSub(@, hits)]

\* an assembly loop that pushes a comma after every fragment
ParPiecesTrailingComma(n) == [i \in 1..(2 * n) |-> IF i % 2 = 1 THEN "frag" ELSE "comma"]

\* the tokens pushed by the assembly loop for fragments 0..n-1
RECURSIVE ParPieces(_)
ParPieces(n) ==
    IF n = 0 THEN <<>>
    ELSE ParPieces(n - 1) \o (IF n - 1 > 0 THEN <<"comma">> ELSE <<>>) \o <<"frag">>

\* the rayon map over the slices, as one step: the workers' get_chunk(Large)
\* calls pop what the pool holds, in any assignment of fragments to slices;
\* every other slice generates an element of its own size
ParMap ==
    /\ resp.pc = "build_parallel"
    /\ LET chunk_size == target_bytes("Large")
           num_chunks == div_ceil(resp.target_size, chunk_size)
           c == IF num_chunks > 0 THEN lazy_initialize(chunks) ELSE chunks
           hits == Min(CountOf(c, "Large"), num_chunks)
           popped == IF hits > 0 THEN PopN(c["Large"], hits) ELSE <<>>
           current_size(i) == Min(resp.target_size - (i * chunk_size), chunk_size)
       IN /\ chunks' = IF hits > 0
                       THEN [c EXCEPT !["Large"] = SubSeq(@, 1, Len(@) - hits)]
                       ELSE c
          /\ stats' = ParCounters(stats, hits, num_chunks - hits)
          /\ \E who \in {f \in [1..hits -> 0..(num_chunks - 1)] : Injective(f)} :
             \E short \in [0..(num_chunks - 1) -> BOOLEAN] :
               resp' = [resp EXCEPT
                   !.pc = "par_assemble",
                   !.slices = [j \in 1..num_chunks |->
                                 IF \E h \in 1..hits : who[h] = j - 1
                                 THEN popped[CHOOSE h \in 1..hits : who[h] = j - 1]
                                 ELSE Fragment(0, IF short[j - 1] THEN 20
                                                  ELSE current_size(j - 1))]]
    /\ RespFrame

\* build_parallel after the map: the assembly loop and the metadata suffix
ParAssemble ==
    /\ resp.pc = "par_assemble"
    /\ LET n == Len(resp.slices)
           body == OpenLen + SumLens(resp.slices) + (IF n > 0 THEN n - 1 ELSE 0)
           measured == body + ParMetaLen + Digits(resp.target_size) + ChunkCountLen
                       + Digits(n) + ActualSizeLen
       IN resp' = [resp EXCEPT !.pc = "done",
                               !.pieces = <<"open">> \o ParPieces(n) \o <<"close">>,
                               !.chunk_count = n,
                               !.len = measured + Digits(measured) + CloseLen,
                               !.last_len = IF n > 0 THEN resp.slices[n].len ELSE 0,
                               !.meta = [generated_by |-> "parallel",
                                         target_size |-> resp.target_size,
                                         actual_size |-> measured,
                                         chunk_count |-> n,
                                         streaming |-> FALSE]]
    /\ UNCHANGED <<chunks, stats>>
    /\ RespFrame

----------------------------------------------------------------------------
(* StreamingGarbleResponse *)

\* StreamingGarbleResponse::new
StreamNew ==
    /\ resp.pc = "stream_new"
    /\ resp' = [resp EXCEPT !.pc = "stream_open",
                            !.chunk_size = StreamChunkSize(resp.target_size)]
    /\ UNCHANGED <<chunks, stats>>
    /\ RespFrame

\* into_stream up to the loop: the opening prefix is yielded
StreamOpen ==
    /\ resp.pc = "stream_open"
    /\ resp' = [resp EXCEPT !.pc = "stream_loop",
                            !.remaining = resp.target_size,
                            !.chunk_count = 0,
                            !.total_chunks = div_ceil(resp.target_size, resp.chunk_size),
                            !.pieces = <<"open">>,
                            !.len = OpenLen]
    /\ UNCHANGED <<chunks, stats>>
    /\ RespFrame

\* one iteration of the loop of into_stream
StreamIter ==
    /\ resp.pc = "stream_loop"
    /\ StreamWhile(resp.remaining, resp.chunk_count, resp.total_chunks)
    /\ LET current_chunk_size == Min(resp.remaining, resp.chunk_size)
           size == PooledChunkSize(current_chunk_size)
           got == GetChunkResult(chunks, size)
           sep == IF resp.chunk_count > 0 THEN <<"comma">> ELSE <<>>
       IN /\ chunks' = GetChunkPool(chunks, size)
          /\ stats' = GetChunkCounters(stats, chunks, size)
          /\ \E actual_chunk_size \in (IF got # <<>> THEN {got[1].len}
                                       ELSE ElementLens(current_chunk_size)) :
               resp' = [resp EXCEPT !.asked = size,
                                    !.asked_at = resp.remaining,
                                    !.gen_size = IF got # <<>> THEN 0
                                                 ELSE current_chunk_size,
                                    !.pieces = @ \o sep \o <<"frag">>,
                                    !.len = @ + Len(sep) + actual_chunk_size,
                                    !.last_len = actual_chunk_size,
                                    !.remaining = SatSub(@, actual_chunk_size),
                                    !.chunk_count = @ + 1]
    /\ RespFrame

\* a suffix that reports the expected number of fragments
StreamCloseExpectedTotal ==
    /\ resp.pc = "stream_loop"
    /\ ~StreamWhile(resp.remaining, resp.chunk_count, resp.total_chunks)
    /\ resp' = [resp EXCEPT !.pc = "done",
                            !.pieces = @ \o <<"close">>,
                            !.len = @ + StreamMetaLen + Digits(resp.target_size)
                                    + ActualSizeLen + Digits(resp.target_size)
                                    + ChunkCountLen + Digits(resp.total_chunks)
                                    + StreamTailLen,
                            !.meta = [generated_by |-> "streaming",
                                      target_size |-> resp.target_size,
                                      actual_size |-> resp.target_size,
                                      chunk_count |-> resp.total_chunks,
                                      streaming |-> TRUE]]
    /\ UNCHANGED <<chunks, stats>>
    /\ RespFrame

\* into_stream after the loop: the closing metadata suffix is yielded
StreamClose ==
    /\ resp.pc = "stream_loop"
    /\ ~StreamWhile(resp.remaining, resp.chunk_count, resp.total_chunks)
    /\ resp' = [resp EXCEPT !.pc = "done",
                            !.pieces = @ \o <<"close">>,
                            !.len = @ + StreamMetaLen + Digits(resp.target_size)
                                    + ActualSizeLen + Digits(resp.target_size)
                                    + ChunkCountLen + Digits(resp.chunk_count)
                                    + StreamTailLen,
                            !.meta = [generated_by |-> "streaming",
                                      target_size |-> resp.target_size,
                                      actual_size |-> resp.target_size,
                                      chunk_count |-> resp.chunk_count,
                                      streaming |-> TRUE]]
    /\ UNCHANGED <<chunks, stats>>
    /\ RespFrame

RespNext ==
    \/ CreateOptimalResponse
    \/ DirectGenerate
    \/ BuildResponseStart
    \/ BuildResponseIter
    \/ BuildResponseClose
    \/ ParMap
    \/ ParAssemble
    \/ StreamNew
    \/ StreamOpen
    \/ StreamIter
    \/ StreamClose

\* a response is assembled by one task that runs to its end
RespSpec == RespInit /\ [][RespNext]_vars /\ WF_vars(RespNext)

BuildNext ==
    \/ BuildResponseStart
    \/ BuildResponseIter
    \/ BuildResponseClose

\* build_response is a synchronous function: once called it keeps running
BuildSpec == BuildInit /\ [][BuildNext]_vars /\ WF_vars(BuildNext)

----------------------------------------------------------------------------
(* Generation paths: generate_array_element, serde_json::to_string and the
   unwrap_or_else of each caller *)

\* results of serde_json::to_string on a value generated for n bytes
ToStringResults(n) ==
    {[ok |-> TRUE, text |-> "value", len |-> l] : l \in GenLens(n)}
    \cup {[ok |-> FALSE, text |-> "", len |-> 0]}

\* the closure of generate_chunks_parallel
PoolElement(r) == IF r.ok THEN r.text ELSE "{\"error\":\"generation_failed\"}"

\* the miss branch of the loop of build_response
BuildFallbackElement(r) == IF r.ok THEN r.text ELSE "{\"fallback\":true}"

\* the miss branch of the map of build_parallel
ParallelSliceElement(r) == IF r.ok THEN r.text ELSE "{}"

\* StreamingGarbleResponse::generate_chunk
generate_chunk(r) == IF r.ok THEN r.text ELSE "{}"

\* the generation calls made, each with the size it asks for
GenCalls ==
    ({"generate_chunks_parallel"} \X {target_bytes(c) : c \in ChunkSize})
    \cup ({"build_response"} \X {501, 600, 700, 800, 900, 1000, 1023, 1024})
    \cup ({"build_parallel"} \X {1, 500, 2400, 45200, 50000, 97600, 102399, 102400})
    \cup ({"generate_chunk"} \X {501, 1024, 4520, 10240, 50000, 102400, 500000, 1048576})

GenInit ==
    /\ chunks = EmptyMap
    /\ config = DefaultConfig
    /\ stats = ChunkPoolStatsDefault
    /\ rwWriter = "none"
    /\ rwReaders = [p \in Procs |-> 0]
    /\ statsHolder = "none"
    /\ cs = [p \in Consumers |-> Idle]
    /\ bg = BgInit
    /\ nextId = 1
    /\ hist = HistInit
    /\ \E c \in GenCalls :
         resp = [pc |-> "generate", path |-> c[1], size |-> c[2], failed |-> FALSE,
                 text |-> "", len |-> 0]

GenFrame ==
    UNCHANGED <<chunks, config, stats, rwWriter, rwReaders, statsHolder, cs, bg, nextId, hist>>

Generated(r, text) ==
    [resp EXCEPT !.pc = "generated", !.failed = ~r.ok, !.text = text,
                 !.len = IF r.ok THEN r.len ELSE 0]

GenPoolElement ==
    /\ resp.pc = "generate" /\ resp.path = "generate_chunks_parallel"
    /\ \E r \in ToStringResults(resp.size) : resp' = Generated(r, PoolElement(r))
    /\ GenFrame

GenBuildFallback ==
    /\ resp.pc = "generate" /\ resp.path = "build_response"
    /\ \E r \in ToStringResults(resp.size) : resp' = Generated(r, BuildFallbackElement(r))
    /\ GenFrame

GenParallelSlice ==
    /\ resp.pc = "generate" /\ resp.path = "build_parallel"
    /\ \E r \in ToStringResults(resp.size) : resp' = Generated(r, ParallelSliceElement(r))
    /\ GenFrame

GenStreamChunk ==
    /\ resp.pc = "generate" /\ resp.path = "generate_chunk"
    /\ \E r \in ToStringResults(resp.size) : resp' = Generated(r, generate_chunk(r))
    /\ GenFrame

GenNext ==
    \/ GenPoolElement
    \/ GenBuildFallback
    \/ GenParallelSlice
    \/ GenStreamChunk

GenSpec == GenInit /\ [][GenNext]_vars

\* C16: on every generation path a value that fails to serialize is replaced
\* by the same fixed sentinel fragment, the one of the pool's generation.
C16_SameSentinelOnEveryPath ==
    (resp.pc = "generated" /\ resp.failed) => resp.text = "{\"error\":\"generation_failed\"}"

----------------------------------------------------------------------------
(* The operations that take the stats Mutex, run one at a time by one caller;
   a thread that panicked with the guard has left the Mutex poisoned *)

\* self.stats.lock() returns Ok
StatsLockOk == statsHolder # "poisoned"

NoOp == [pc |-> "op", n |-> 0, op |-> "none", outcome |-> "none", result |-> <<>>]

StatsLockInit ==
    /\ chunks \in RespPools
    /\ config = DefaultConfig
    /\ stats = ChunkPoolStatsDefault
    /\ rwWriter = "none"
    /\ rwReaders = [p \in Procs |-> 0]
    /\ statsHolder \in {"none", "poisoned"}
    /\ cs = [p \in Consumers |-> Idle]
    /\ bg = BgInit
    /\ nextId = 1
    /\ hist = HistInit
    /\ resp = NoOp

StatsLockFrame == UNCHANGED <<config, rwWriter, rwReaders, statsHolder, cs, bg, nextId, hist>>

Returned(op, result) ==
    [pc |-> "op", n |-> resp.n + 1, op |-> op, outcome |-> "returned", result |-> result]

\* get_chunk(size): `if let Ok(mut stats) = self.stats.lock()` around the counters
OpGetChunk ==
    /\ resp.n < MaxOps
    /\ \E size \in ChunkSize :
         /\ chunks' = GetChunkPool(chunks, size)
         /\ stats' = IF StatsLockOk THEN GetChunkCounters(stats, chunks, size) ELSE stats
         /\ resp' = Returned("get_chunk", GetChunkResult(chunks, size))
    /\ StatsLockFrame

\* get_chunks(size, count): `if let Ok(mut stats) = self.stats.lock()` around the counters
OpGetChunks ==
    /\ resp.n < MaxOps
    /\ \E size \in ChunkSize, count \in 0..MaxCount :
         LET available == Min(CountOf(chunks, size), count)
             popped == IF available > 0 THEN PopN(chunks[size], available) ELSE <<>>
         IN \E lens \in BatchLens(size, count - available) :
              /\ chunks' = IF available > 0
                            THEN [chunks EXCEPT ![size] = SubSeq(@, 1, Len(@) - available)]
                            ELSE chunks
              /\ stats' = IF StatsLockOk
                           THEN GetChunksStats(stats, available, count - available)
                           ELSE stats
              /\ resp' = Returned("get_chunks", popped \o Unpooled(lens))
    /\ StatsLockFrame

\* update_stats: `if let Ok(mut stats) = self.stats.lock()` around the refresh
OpUpdateStats ==
    /\ resp.n < MaxOps
    /\ stats' = IF StatsLockOk
                 THEN [stats EXCEPT !.total_chunks = TotalChunks(chunks),
                                    !.memory_usage_bytes = estimate_memory_usage(chunks)]
                 ELSE stats
    /\ resp' = Returned("update_stats", <<>>)
    /\ UNCHANGED chunks
    /\ StatsLockFrame

\* get_stats: self.stats.lock().unwrap().clone()
OpGetStats ==
    /\ resp.n < MaxOps
    /\ resp' = IF StatsLockOk
                THEN Returned("get_stats", <<stats>>)
                ELSE [Returned("get_stats", <<>>) EXCEPT !.outcome = "panicked"]
    /\ UNCHANGED <<chunks, stats>>
    /\ StatsLockFrame

StatsLockNext ==
    \/ OpGetChunk
    \/ OpGetChunks
    \/ OpUpdateStats
    \/ OpGetStats

StatsLockSpec == StatsLockInit /\ [][StatsLockNext]_vars

\* C17: a failure to acquire the stats lock is swallowed by get_chunk,
\* get_chunks, the stats refresh and get_stats: with the lock failing, every
\* one of these operations still completes and returns.
C17_StatsLockFailureSwallowed ==
    (~StatsLockOk /\ resp.n > 0) => resp.outcome = "returned"

----------------------------------------------------------------------------
(* The stream of into_stream polled by its consumer (PollSpec).  The body of
   stream! runs only inside a poll_next of the consumer (the response body
   axum builds with Body::from_stream); every `yield item` returns the item
   from that poll_next and suspends the body, yield_now().await suspends it
   once without an item, and dropping the stream drops the suspended body. *)

\* target sizes of the streams polled
PollTargets == {0, 501, 25000, 210000, 2000000}

NewStream(target_size) ==
    [pc |-> "g_start",
     polling |-> FALSE,      \* a poll_next of the consumer is running the body
     consumer |-> "live",    \* "dropped" once the consumer has dropped the stream
     target_size |-> target_size,
     chunk_size |-> StreamChunkSize(target_size),
     total_chunks |-> 0, remaining |-> 0, chunk_count |-> 0,
     chunk_data |-> <<>>,    \* the fragment popped or generated, not yet yielded
     produced |-> 0,         \* fragments popped or generated so far
     handed |-> 0,           \* fragments returned to the consumer so far
     yields |-> 0,           \* yield_now().await executed so far
     items |-> <<>>]         \* what the consumer has received, in order

PollInit ==
    /\ chunks \in RespPools
    /\ config = DefaultConfig
    /\ stats = ChunkPoolStatsDefault
    /\ rwWriter = "none"
    /\ rwReaders = [p \in Procs |-> 0]
    /\ statsHolder = "none"
    /\ cs = [p \in Consumers |-> Idle]
    /\ bg = BgInit
    /\ nextId = 1
    /\ hist = HistInit
    /\ \E t \in PollTargets : resp = NewStream(t)

PollFrame == UNCHANGED <<config, rwWriter, rwReaders, statsHolder, cs, bg, nextId, hist>>

\* the consumer calls poll_next on the stream it still holds
ConsumerPoll ==
    /\ resp.consumer = "live"
    /\ ~resp.polling
    /\ resp.pc # "g_done"
    /\ resp' = [resp EXCEPT !.polling = TRUE]
    /\ UNCHANGED <<chunks, stats>>
    /\ PollFrame

\* the consumer drops the stream (the client went away) between two polls
ConsumerDrop ==
    /\ resp.consumer = "live"
    /\ ~resp.polling
    /\ resp.pc # "g_done"
    /\ resp' = [resp EXCEPT !.consumer = "dropped"]
    /\ UNCHANGED <<chunks, stats>>
    /\ PollFrame

\* the locals and the yield of the opening prefix
GenOpen ==
    /\ resp.polling /\ resp.pc = "g_start"
    /\ resp' = [resp EXCEPT !.remaining = resp.target_size,
                            !.chunk_count = 0,
                            !.total_chunks = div_ceil(resp.target_size, resp.chunk_size),
                            !.items = @ \o <<"open">>,
                            !.polling = FALSE,
                            !.pc = "g_loop"]
    /\ UNCHANGED <<chunks, stats>>
    /\ PollFrame

\* the while condition; the yield of the separator, or of the closing suffix
GenLoop ==
    /\ resp.polling /\ resp.pc = "g_loop"
    /\ resp' = IF StreamWhile(resp.remaining, resp.chunk_count, resp.total_chunks)
               THEN IF resp.chunk_count > 0
                    THEN [resp EXCEPT !.items = @ \o <<"comma">>, !.polling = FALSE,
                                      !.pc = "g_chunk"]
                    ELSE [resp EXCEPT !.pc = "g_chunk"]
               ELSE [resp EXCEPT !.items = @ \o <<"close">>, !.polling = FALSE,
                                 !.pc = "g_end"]
    /\ UNCHANGED <<chunks, stats>>
    /\ PollFrame

\* current_chunk_size, get_pooled_chunk or generate_chunk, `remaining`
GenProduce ==
    /\ resp.polling /\ resp.pc = "g_chunk"
    /\ LET current_chunk_size == Min(resp.remaining, resp.chunk_size)
           size == PooledChunkSize(current_chunk_size)
           got == GetChunkResult(chunks, size)
       IN /\ chunks' = GetChunkPool(chunks, size)
          /\ stats' = GetChunkCounters(stats, chunks, size)
          /\ \E actual_chunk_size \in (IF got # <<>> THEN {got[1].len}
                                       ELSE ElementLens(current_chunk_size)) :
               resp' = [resp EXCEPT !.chunk_data = <<actual_chunk_size>>,
                                    !.remaining = SatSub(@, actual_chunk_size),
                                    !.produced = @ + 1,
                                    !.pc = "g_emit"]
    /\ PollFrame

\* a producer that queues the fragment and goes on without its consumer
GenEmitBuffered ==
    /\ resp.polling /\ resp.pc = "g_emit"
    /\ resp' = [resp EXCEPT !.chunk_data = <<>>,
                            !.chunk_count = @ + 1,
                            !.yields = @ + 1,
                            !.pc = "g_loop"]
    /\ UNCHANGED <<chunks, stats>>
    /\ PollFrame

\* yield Ok(chunk_data): the fragment is returned to the consumer
GenEmit ==
    /\ resp.polling /\ resp.pc = "g_emit"
    /\ resp' = [resp EXCEPT !.items = @ \o <<"frag">>,
                            !.chunk_data = <<>>,
                            !.handed = @ + 1,
                            !.polling = FALSE,
                            !.pc = "g_count"]
    /\ UNCHANGED <<chunks, stats>>
    /\ PollFrame

\* chunk_count += 1 and tokio::task::yield_now().await
GenCount ==
    /\ resp.polling /\ resp.pc = "g_count"
    /\ resp' = [resp EXCEPT !.chunk_count = @ + 1,
                            !.yields = @ + 1,
                            !.polling = FALSE,
                            !.pc = "g_loop"]
    /\ UNCHANGED <<chunks, stats>>
    /\ PollFrame

\* the body ends: poll_next returns None
GenEnd ==
    /\ resp.polling /\ resp.pc = "g_end"
    /\ resp' = [resp EXCEPT !.polling = FALSE, !.pc = "g_done"]
    /\ UNCHANGED <<chunks, stats>>
    /\ PollFrame

PollNext ==
    \/ ConsumerPoll
    \/ ConsumerDrop
    \/ GenOpen
    \/ GenLoop
    \/ GenProduce
    \/ GenEmit
    \/ GenCount
    \/ GenEnd

PollSpec == PollInit /\ [][PollNext]_vars

\* at most one fragment is produced and not yet handed over, and none
\* between two polls; every fragment handed over is followed by a yield_now
LookAheadOfOne ==
    /\ resp.produced - resp.handed \in {0, 1}
    /\ ~resp.polling => resp.produced = resp.handed
    /\ resp.yields = resp.chunk_count
    /\ resp.pc \in {"g_loop", "g_end", "g_done"} => resp.yields = resp.handed

\* fragment k + 1 is produced only when fragment k was handed over and the
\* scheduler was yielded to after it, and only for a consumer that holds
\* the stream
ProducesInTurn ==
    (resp'.produced # resp.produced \/ chunks' # chunks) =>
        /\ resp'.produced = resp.produced + 1
        /\ resp.handed = resp.produced
        /\ resp.yields = resp.produced
        /\ resp.consumer = "live"

\* C27: the streaming producer is at most one fragment ahead of its consumer:
\* it pops or generates fragment k+1 only after fragment k has been handed
\* over, it yields scheduling control after each fragment, and once the
\* consumer has dropped the stream it pops nothing more from the pool.
C27_LookAheadOfOneFragment ==
    /\ []LookAheadOfOne
    /\ [][ProducesInTurn]_vars
    /\ [][resp.consumer = "dropped" => UNCHANGED <<chunks, resp>>]_vars

\* the consumer dropped the stream after two fragments, with more to come
C27_Witness ==
    /\ resp.consumer = "dropped"
    /\ resp.handed = 2
    /\ resp.produced = 2
    /\ resp.remaining > 500
    /\ resp.chunk_count < resp.total_chunks
    /\ resp.pc \in {"g_loop", "g_chunk"}

----------------------------------------------------------------------------
(* main: the configuration is loaded, then the background task is spawned
   on CHUNK_POOL (MainSpec) *)

\* Config::default().performance, the fields the pool has a counterpart for
PerformanceDefault ==
    [chunk_pool_max_memory_mb |-> 8, chunk_pool_min_chunks_per_size |-> 5,
     background_generation_interval_ms |-> 1000]

\* what config.json can hold
PerformanceConfigs ==
    [chunk_pool_max_memory_mb : {8, 64}, chunk_pool_min_chunks_per_size : {2, 5},
     background_generation_interval_ms : {250, 1000}]

\* CHUNK_POOL before its first use: the Lazy has not run ChunkPool::new
NotConstructed ==
    [max_memory_mb |-> 0, min_chunks_per_size |-> 0,
     background_generation_interval_ms |-> 0]

MainInit ==
    /\ chunks = EmptyMap
    /\ config = NotConstructed
    /\ stats = ChunkPoolStatsDefault
    /\ rwWriter = "none"
    /\ rwReaders = [p \in Procs |-> 0]
    /\ statsHolder = "none"
    /\ cs = [p \in Consumers |-> Idle]
    /\ bg = BgInit
    /\ nextId = 1
    /\ hist = HistInit
    /\ resp = [pc |-> "load", performance |-> PerformanceDefault]

\* Config::load_from_file("config.json"): the file's values, or the defaults
\* when there is no file
MainLoad ==
    /\ resp.pc = "load"
    /\ \E performance \in PerformanceConfigs \cup {PerformanceDefault} :
         resp' = [resp EXCEPT !.pc = "loaded", !.performance = performance]
    /\ UNCHANGED <<chunks, config, stats, rwWriter, rwReaders, statsHolder, cs, bg, nextId, hist>>

\* tokio::spawn of the task, whose first statement dereferences CHUNK_POOL:
\* Lazy::new(|| Arc::new(ChunkPool::new(ChunkPoolConfig::default())))
MainSpawn ==
    /\ resp.pc = "loaded"
    /\ config' = DefaultConfig
    /\ resp' = [resp EXCEPT !.pc = "spawned"]
    /\ UNCHANGED <<chunks, stats, rwWriter, rwReaders, statsHolder, cs, bg, nextId, hist>>

\* chunk_pool.background_maintenance().await in the spawned task
MainBackground ==
    /\ resp.pc = "spawned"
    /\ BgNext

MainNext == MainLoad \/ MainSpawn \/ MainBackground

MainSpec == MainInit /\ [][MainNext]_vars

\* C29: the memory budget, the minimum per class and the tick interval of the
\* running pool are the values of the loaded configuration.
C29_PoolUsesLoadedConfiguration ==
    resp.pc = "spawned" =>
        /\ config.max_memory_mb = resp.performance.chunk_pool_max_memory_mb
        /\ config.min_chunks_per_size = resp.performance.chunk_pool_min_chunks_per_size
        /\ config.background_generation_interval_ms
              = resp.performance.background_generation_interval_ms

----------------------------------------------------------------------------
(* Properties of the pool under concurrency (Spec) *)

CopiesIn(v, id) == Cardinality({i \in 1..Len(v) : v[i].id = id})

PoolCopies(id) ==
    Cardinality(UNION {{<<s, i>> : i \in {k \in 1..Len(chunks[s]) : chunks[s][k].id = id}} :
                       s \in DOMAIN chunks})

\* copies popped by a call that has not returned yet
HeldCopies(id) ==
    Cardinality(UNION {{<<p, i>> : i \in {k \in 1..Len(cs[p].result) : cs[p].result[k].id = id}} :
                       p \in Consumers})

DeliveredCopies(id) == IF id \in DOMAIN hist.delivered THEN hist.delivered[id] ELSE 0

\* C1: under every interleaving of get_chunk, get_chunks and the background
\* inserts, a fragment of the pool is handed out at most once: counting the
\* pool, the calls in progress and the calls returned, no fragment exists twice.
C1_DeliveredAtMostOnce ==
    \A id \in 1..(nextId - 1) :
        PoolCopies(id) + HeldCopies(id) + DeliveredCopies(id) <= 1

\* two get_chunk calls for the same class overlap: one has popped a fragment,
\* the other is about to pop from the same non-empty class, and a fragment
\* has already been returned to a caller
C1_Witness ==
    \E p, q \in Consumers :
        /\ p # q
        /\ cs[p].pc = "gc_stats" /\ cs[p].result # <<>>
        /\ cs[q].pc = "gc_pop" /\ cs[q].size = cs[p].size
        /\ CountOf(chunks, cs[q].size) > 0

\* C8 as stated: right after a background generation round has inserted its
\* fragments, the estimated usage is at or below the budget.
C8_UsageWithinBudgetAfterRound ==
    bg.pc = "yield" => estimate_memory_usage(chunks) <= max_bytes

\* C8 amended: right after a background generation round, the estimated usage
\* without the fragments this round made is below the budget (the budget was
\* tested before the round, not after it).
C8_UsageBeforeRoundBelowBudget ==
    bg.pc = "yield" =>
        /\ bg.current_usage < max_bytes
        /\ estimate_memory_usage(chunks) <= bg.current_usage + SumLens(bg.new_chunks)

\* a round has just pushed the usage over a non-zero budget
C8_Witness ==
    /\ bg.pc = "yield"
    /\ max_bytes > 0
    /\ estimate_memory_usage(chunks) > max_bytes

\* C9: the budget is tested on every tick before anything is generated: no
\* step adds a fragment to the pool unless it is the insert of a tick whose
\* test found the usage below the budget, a tick whose test found the usage
\* at or above the budget goes back to sleep, and with a zero budget the
\* pool stays empty.
C9_BudgetCheckedBeforeGeneration ==
    /\ [][/\ TotalChunks(chunks') > TotalChunks(chunks) =>
               bg.pc = "insert" /\ bg.current_usage < max_bytes
          /\ (bg.pc = "check_mem" /\ bg' # bg
               /\ estimate_memory_usage(chunks) >= max_bytes) =>
               bg'.pc = "sleep" /\ chunks' = chunks /\ nextId' = nextId]_vars
    /\ [](max_bytes = 0 => TotalChunks(chunks) = 0)

\* a tick found a non-zero budget used up and went back to sleep although a
\* class is below its minimum
C9_Witness ==
    /\ bg.pc = "sleep"
    /\ max_bytes > 0
    /\ bg.current_usage >= max_bytes
    /\ AnyLow(chunks)

\* C10: get_chunk returns a fragment exactly when the class holds one at the
\* pop, and removes that fragment and no other; a call returning a fragment
\* adds 1 to cache_hits only and a call returning None adds 1 to cache_misses
\* only; so hits + misses counts the completed calls (a get_chunks(count)
\* call counting for count).
C10_GetChunkAccounting ==
    /\ [][\A p \in Consumers :
            /\ (cs[p].pc = "gc_pop" /\ cs'[p].pc # "gc_pop") =>
                  LET v == IF cs[p].size \in DOMAIN chunks THEN chunks[cs[p].size] ELSE <<>> IN
                  IF v # <<>>
                  THEN /\ cs'[p].pc = "gc_stats"
                       /\ cs'[p].result = <<v[Len(v)]>>
                       /\ chunks' = [chunks EXCEPT ![cs[p].size] = SubSeq(v, 1, Len(v) - 1)]
                  ELSE /\ chunks' = chunks
                       /\ cs'[p].pc = "gc_stats" => cs'[p].result = <<>>
            /\ (cs[p].pc = "gc_stats" /\ cs'[p].pc = "idle") =>
                  /\ chunks' = chunks
                  /\ IF cs[p].result # <<>>
                     THEN /\ stats'.cache_hits = stats.cache_hits + 1
                          /\ stats'.cache_misses = stats.cache_misses
                          /\ hist'.gcSome = hist.gcSome + 1
                     ELSE /\ stats'.cache_misses = stats.cache_misses + 1
                          /\ stats'.cache_hits = stats.cache_hits
                          /\ hist'.gcNone = hist.gcNone + 1]_vars
    /\ [](stats.cache_hits + stats.cache_misses = hist.gcSome + hist.gcNone + hist.batch)

\* one get_chunk call has returned a fragment and another has returned None
C10_Witness == hist.gcSome >= 1 /\ hist.gcNone >= 1 /\ hist.batch = 0

\* the fragments of v that came out of the pool
Pooled(v) == {i \in 1..Len(v) : v[i].id # 0}

\* C11: get_chunks(class, n) returns exactly n fragments whatever the pool
\* holds, initialized or not: min(n, available) of them are popped from the
\* class, which loses exactly these, and the others are freshly generated.
C11_GetChunksReturnsCount ==
    [][\A p \in Consumers :
         /\ (cs[p].pc = "idle" /\ cs'[p].pc \in {"gcs_gen", "gcs_stats"}) =>
               LET n == cs'[p].count
                   have == CountOf(chunks, cs'[p].size)
                   taken == IF n <= have THEN n ELSE have
               IN /\ Len(cs'[p].result) = taken
                  /\ Pooled(cs'[p].result) = 1..taken
                  /\ CountOf(chunks', cs'[p].size) = have - taken
                  /\ \A i \in 1..taken :
                        cs'[p].result[i] = chunks[cs'[p].size][have + 1 - i]
                  /\ cs'[p].available = taken
                  /\ DOMAIN chunks' = DOMAIN chunks
         /\ (cs[p].pc = "gcs_stats" /\ cs'[p].pc = "idle") =>
               /\ Len(cs[p].result) = cs[p].count
               /\ Pooled(cs[p].result) = 1..cs[p].available
               /\ chunks' = chunks]_vars

\* a get_chunks(class, 2) call is about to return one popped and one
\* generated fragment
C11_Witness ==
    \E p \in Consumers :
        /\ cs[p].pc = "gcs_stats"
        /\ cs[p].count = 2
        /\ cs[p].available = 1
        /\ Len(cs[p].result) = 2

\* a step that runs lazy_initialize: the head of get_chunk or of
\* background_maintenance
LazyInitializeStep ==
    \/ \E p \in Consumers : cs[p].pc = "idle" /\ cs'[p].pc = "gc_pop"
    \/ bg.pc = "start" /\ bg'.pc = "sleep"

\* C12: lazy_initialize is idempotent under concurrent callers: the call that
\* finds the mapping empty inserts an empty entry per class, and every
\* other call, wherever it falls among pops and background inserts, leaves
\* every collection and every fragment as it is; no other step initializes.
C12_LazyInitializeIdempotent ==
    [][/\ LazyInitializeStep =>
            IF DOMAIN chunks = {}
            THEN chunks' = [s \in ChunkSize |-> <<>>]
            ELSE chunks' = chunks
       /\ (DOMAIN chunks = {} /\ DOMAIN chunks' # {}) => LazyInitializeStep]_vars

\* a get_chunk call has run lazy_initialize on a pool that holds fragments
C12_Witness ==
    \E p \in Consumers :
        /\ cs[p].pc = "gc_pop"
        /\ TotalChunks(chunks) >= 2

\* C13: the mapping is either not yet initialized or has an entry for each
\* of the four classes, and once it has them no step removes one.
C13_EntriesForEveryClass ==
    /\ [](DOMAIN chunks = {} \/ DOMAIN chunks = {"Small", "Medium", "Large", "XLarge"})
    /\ [][DOMAIN chunks # {} => DOMAIN chunks' = DOMAIN chunks]_vars

\* a class filled by the background task has been emptied again by a caller
C13_Witness ==
    /\ DOMAIN chunks = {"Small", "Medium", "Large", "XLarge"}
    /\ hist.gcSome >= 1
    /\ \E s \in ChunkSize : chunks[s] = <<>> /\ stats.cache_hits >= 1

\* C14: no operation takes a lock it already holds: no process ever holds
\* two read guards of the pool data, or a read guard next to its write guard.
C14_NoRecursiveAcquisition ==
    \A p \in Procs :
        /\ rwReaders[p] <= 1
        /\ rwWriter = p => rwReaders[p] = 0

\* C15: the cancellation takes effect only where the task sleeps or yields
\* and leaves the pool as it is; once the task is cancelled it holds no lock,
\* and every fragment it generated has been inserted and is in the pool or
\* has been popped by a consumer.
C15_CancellationLosesNothing ==
    /\ [][(bg'.pc = "cancelled" /\ bg.pc # "cancelled") =>
             (bg.pc \in {"sleep", "yield"} /\ chunks' = chunks)]_vars
    /\ [](bg.pc = "cancelled" =>
             /\ statsHolder # BgTask /\ rwWriter # BgTask /\ rwReaders[BgTask] = 0
             /\ \A id \in 1..(nextId - 1) :
                   PoolCopies(id) + HeldCopies(id) + DeliveredCopies(id) = 1)

\* the task has been cancelled after inserting fragments, one of which a
\* consumer has popped and another is still in the pool
C15_Witness ==
    /\ bg.pc = "cancelled"
    /\ hist.gcSome >= 1
    /\ TotalChunks(chunks) >= 1

\* consumer p holds the write guard of chunks and is at self.stats.lock()
\* while the background task holds the stats guard and is at
\* self.chunks.read() in update_stats
LockCycle(p) ==
    /\ cs[p].pc \in {"gc_stats", "gcs_stats"}
    /\ rwWriter = p
    /\ statsHolder = BgTask
    /\ bg.pc = "stats_read"

\* C21: the pool-data lock and the stats lock are taken in one order by all
\* operations: no consumer in get_chunk or get_chunks and the background
\* task's stats refresh ever each wait for the lock the other holds.
C21_NoLockOrderDeadlock == \A p \in Consumers : ~LockCycle(p)

\* C25: while get_chunks generates its shortfall the caller does not hold
\* the write guard of the pool data.
C25_ShortfallGeneratedOutsideLock ==
    \A p \in Consumers : cs[p].pc = "gcs_gen" => rwWriter # p

\* the fragments the pool holds for a class
Contents(ch, s) == IF s \in DOMAIN ch THEN ch[s] ELSE <<>>

\* new is old without one of its fragments, f
RemovedOne(old, new, f) ==
    \E i \in 1..Len(old) :
       /\ old[i] = f
       /\ new = SubSeq(old, 1, i - 1) \o SubSeq(old, i + 1, Len(old))

\* consumer p takes a step of a get_chunk call
GetChunkStep(p) ==
    /\ cs'[p] # cs[p]
    /\ cs[p].pc \in {"gc_pop", "gc_stats"} \/ cs'[p].pc = "gc_pop"

\* the step of get_chunk that pops a fragment
GetChunkHit(p) ==
    cs[p].pc = "gc_pop" /\ cs'[p].pc = "gc_stats" /\ cs'[p].result # <<>>

GetChunkFrame(p) ==
    LET requested == IF cs[p].pc = "idle" THEN cs'[p].size ELSE cs[p].size IN
    /\ nextId' = nextId
    /\ \A s \in ChunkSize \ {requested} : Contents(chunks', s) = Contents(chunks, s)
    /\ IF GetChunkHit(p)
       THEN /\ Len(cs'[p].result) = 1
            /\ RemovedOne(Contents(chunks, requested), Contents(chunks', requested),
                          cs'[p].result[1])
       ELSE Contents(chunks', requested) = Contents(chunks, requested)

C31_ClassNeverAboveMinimum ==
    \A s \in ChunkSize : CountOf(chunks, s) <= config.min_chunks_per_size

\* the task has just refilled a class to its minimum of 2 after a consumer
\* popped from the pool
C31_Witness ==
    /\ bg.pc = "yield"
    /\ config.min_chunks_per_size = 2
    /\ hist.gcSome >= 1
    /\ CountOf(chunks, Head(bg.needed).size) = 2

\* the fragment of this identity has been pushed into the pool: it is not
\* part of a batch the background task has generated and not yet inserted
Inserted(id) ==
    ~(bg.pc = "insert" /\ \E i \in 1..Len(bg.new_chunks) : bg.new_chunks[i].id = id)

\* C32: every fragment the background task inserted is in the pool, or was
\* popped by exactly one call (in progress or returned), and nowhere else:
\* no operation discards a pooled fragment.
C32_FragmentConservation ==
    \A id \in 1..(nextId - 1) :
        PoolCopies(id) + HeldCopies(id) + DeliveredCopies(id)
            = IF Inserted(id) THEN 1 ELSE 0

\* a get_chunks call has returned a pooled fragment, another fragment is in
\* the pool, and the task holds a batch it has not inserted yet
C32_Witness ==
    /\ bg.pc = "insert"
    /\ TotalChunks(chunks) >= 1
    /\ hist.gcSome = 0
    /\ hist.batch >= 1
    /\ \E id \in DOMAIN hist.delivered : hist.delivered[id] = 1

\* no operation is inside a critical section: no guard of either lock is held
NoGuardHeld ==
    /\ rwWriter = "none"
    /\ \A p \in Procs : rwReaders[p] = 0
    /\ statsHolder = "none"

\* update_stats has written the gauge and still holds its guards
JustRefreshed == bg.pc \in {"stats_mem", "stats_drop"}

GaugeWithinPool ==
    /\ NoGuardHeld => stats.total_chunks <= TotalChunks(chunks)
    /\ JustRefreshed => stats.total_chunks = TotalChunks(chunks)

\* the step in which update_stats returns
RefreshReturns == bg.pc = "stats_drop" /\ bg'.pc = "count"

\* C33: with get_chunk callers and the background task interleaved, whenever
\* no guard is held the total_chunks gauge is at most the number of
\* fragments in the pool, and it is that number when the background stats
\* refresh has written it and when the refresh returns.
C33_GaugeAtMostPool ==
    /\ []GaugeWithinPool
    /\ [][RefreshReturns => stats'.total_chunks = TotalChunks(chunks')]_vars

\* after a refresh and a hit no guard is held and the gauge, decremented by
\* the hit, is the number of fragments left in the pool
C33_Witness ==
    /\ NoGuardHeld
    /\ stats.background_generations >= 1
    /\ stats.cache_hits >= 1
    /\ stats.total_chunks >= 1
    /\ stats.total_chunks = TotalChunks(chunks)

\* the task is suspended in tokio::time::sleep(..).await or in
\* tokio::task::yield_now().await
BgSuspended == bg.pc \in {"sleep", "yield"}

\* C34: where the background task sleeps or yields it holds no guard of the
\* pool-data lock and no guard of the stats lock.
C34_NoGuardHeldWhereSuspended ==
    BgSuspended =>
        /\ rwWriter # BgTask
        /\ rwReaders[BgTask] = 0
        /\ statsHolder # BgTask

\* the task is at its yield after an insert and a consumer has taken the
\* write guard and popped one of the inserted fragments
C34_Witness ==
    /\ bg.pc = "yield"
    /\ \E p \in Consumers :
          /\ rwWriter = p
          /\ cs[p].pc = "gc_stats"
          /\ cs[p].result # <<>>
          /\ \E i \in 1..Len(bg.new_chunks) : bg.new_chunks[i] = cs[p].result[1]

----------------------------------------------------------------------------
(* Properties of response assembly (RespSpec, BuildSpec) *)

\* the response is complete and carries the envelope
Enveloped == resp.pc = "done" /\ resp.meta.generated_by # "none"

\* the positions each strategy of create_optimal_response runs through
StrategyPcs(strategy) ==
    CASE strategy = "Direct" -> {"direct", "done"}
      [] strategy = "Fast" -> {"build_response", "br_loop", "br_close", "build_parallel",
                               "par_assemble", "done"}
      [] strategy = "Streaming" -> {"stream_new", "stream_open", "stream_loop", "done"}
      [] OTHER -> {}

WellFormedPieces(p) ==
    /\ Len(p) >= 2
    /\ p[1] = "open"
    /\ p[Len(p)] = "close"
    /\ Len(p) > 2 => Len(p) % 2 = 1
    /\ \A i \in 2..(Len(p) - 1) : p[i] = (IF i % 2 = 0 THEN "frag" ELSE "comma")

\* C3: the pieces emitted by build_response (target >= 1024), build_parallel
\* and the stream are one opening prefix, the fragments with exactly one
\* comma between consecutive fragments and none before the first or after
\* the last, and one closing suffix, also when no fragment is emitted.
C3_EnvelopeWellFormed ==
    /\ Enveloped => WellFormedPieces(resp.pieces)
    /\ (resp.pc = "done" /\ resp.strategy # "Direct") => Enveloped

\* build_response has completed an envelope of at least three fragments
C3_Witness ==
    /\ resp.pc = "done"
    /\ resp.meta.generated_by = "chunk_pool"
    /\ Len(resp.pieces) >= 7

\* C4: on the Fast and Streaming paths the chunk_count of the metadata is the
\* number of fragments placed in the array, whichever exit ended the loop.
C4_ChunkCountMatches ==
    Enveloped =>
        resp.meta.chunk_count =
            Cardinality({i \in 1..Len(resp.pieces) : resp.pieces[i] = "frag"})

\* a stream ended by its remaining-budget test before the expected number of
\* fragments was emitted
C4_Witness ==
    /\ resp.pc = "done"
    /\ resp.meta.streaming
    /\ resp.chunk_count > 0
    /\ resp.chunk_count < resp.total_chunks

\* C5: build_response terminates for every target, pool content and fragment
\* length, and never appends more than 1000 fragments.
C5_BuildResponseTerminates ==
    /\ <>(resp.pc = "done")
    /\ [](resp.chunk_count <= 1000)

\* build_response(50,000) has been ended by the cap of 1000 fragments
C5_Witness ==
    /\ resp.pc = "done"
    /\ resp.target_size = 50000
    /\ resp.chunk_count = 1000

\* C6 as stated: the output of build_response(50,000) is at most 2 x target
\* bytes long, whatever fragments it is made of.
C6_OutputWithinTwiceTarget ==
    (Enveloped /\ resp.target_size = 50000) => resp.len <= 2 * resp.target_size

\* C6 amended: the output of build_response(target), for 50,000 as for every
\* target from 1024 on, is at most 2 x target bytes long when its last
\* fragment is left out: only the last fragment can carry it beyond that.
C6_OutputWithoutLastFragmentWithinTwiceTarget ==
    Enveloped => resp.len - resp.last_len <= 2 * resp.target_size

\* build_response(50,000) has returned more than 100,000 bytes
C6_Witness ==
    /\ Enveloped
    /\ resp.target_size = 50000
    /\ resp.len > 2 * resp.target_size
    /\ resp.chunk_count >= 1

\* C18: on the Fast parallel path (target >= 100,000) metadata.actual_size is
\* the length of the whole output, metadata block included.
C18_ParallelActualSizeIsFinalLength ==
    (resp.pc = "done" /\ resp.meta.generated_by = "parallel"
     /\ resp.target_size >= 100000) =>
        resp.meta.actual_size = resp.len

\* the fragment size the claim C20 gives for a streaming target
StreamClassBytes(t) ==
    IF t > 10000000 THEN 1048576 ELSE IF t > 1000000 THEN 102400 ELSE 10240

InStream ==
    \/ resp.pc = "stream_loop"
    \/ resp.pc = "done" /\ resp.meta.generated_by = "streaming"

\* C20: a streaming response never emits more than ceil(target / class size)
\* fragments, and emits exactly that many when it ends with more than 500
\* bytes of budget left; for a target of 2,000,000 the class is Large
\* (102,400 bytes) and the bound is 20.
C20_StreamingFragmentBound ==
    InStream =>
        LET c == StreamClassBytes(resp.target_size) IN
        /\ resp.chunk_size = c
        /\ resp.chunk_count * c < resp.target_size + c
        /\ (resp.pc = "done" /\ resp.remaining > 500) =>
               resp.chunk_count * c >= resp.target_size
        /\ resp.target_size = 2000000 =>
               /\ c = 102400
               /\ resp.total_chunks = 20
               /\ resp.chunk_count <= 20
               /\ (resp.pc = "done" /\ resp.remaining > 500) => resp.chunk_count = 20

C20_Witness ==
    /\ resp.pc = "done"
    /\ resp.meta.generated_by = "streaming"
    /\ resp.target_size = 2000000
    /\ resp.remaining > 500
    /\ resp.chunk_count = 20

\* the bytes build_response appends after the loop
PoolSuffixLen ==
    PoolMetaLen + Digits(resp.meta.target_size) + ActualSizeLen
    + Digits(resp.meta.actual_size) + ChunkCountLen + Digits(resp.meta.chunk_count)
    + CloseLen

\* C19: in build_response metadata.actual_size is the length of the prefix,
\* the fragments and the separators, as accumulated before any part of the
\* metadata suffix is appended.
C19_PoolActualSizeIsLengthBeforeSuffix ==
    (resp.pc = "done" /\ resp.meta.generated_by = "chunk_pool") =>
        resp.meta.actual_size = resp.len - PoolSuffixLen

\* the classes whose nominal size does not exceed n
Fits(n) == {s \in ChunkSize : target_bytes(s) <= n}

\* the largest class that fits n; Small, the smallest class, when none fits
LargestFits(n) ==
    IF Fits(n) = {} THEN "Small"
    ELSE CHOOSE s \in Fits(n) : \A t \in Fits(n) : target_bytes(t) <= target_bytes(s)

\* the streaming loop has run at least one iteration
StreamAsked == InStream /\ resp.chunk_count > 0

\* C26: in each iteration of the streaming loop the class asked of the pool
\* is the largest class whose nominal size does not exceed the remaining
\* budget, whatever class was chosen for the response.
C26_StreamAsksLargestFitOfRemaining ==
    StreamAsked => resp.asked = LargestFits(resp.asked_at)

\* C26 (amended): the class asked of the pool is the largest class whose
\* nominal size does not exceed the smaller of the remaining budget and the
\* fragment size chosen for the response: never a class larger than the
\* chosen one.
C26_StreamAsksLargestFitOfCappedRemaining ==
    StreamAsked =>
        /\ resp.asked = LargestFits(Min(resp.asked_at, StreamClassBytes(resp.target_size)))
        /\ target_bytes(resp.asked) <= StreamClassBytes(resp.target_size)

\* a 2,000,000-byte stream asks for Large while XLarge fits its remaining budget
C26_Witness ==
    /\ StreamAsked
    /\ resp.target_size = 2000000
    /\ resp.asked_at >= 1048576
    /\ resp.asked = "Large"

\* build_response has run at least one iteration of its loop
BuildAsked ==
    /\ \/ resp.pc \in {"br_loop", "br_close"}
       \/ resp.pc = "done" /\ resp.meta.generated_by = "chunk_pool"
    /\ resp.chunk_count > 0

----------------------------------------------------------------------------
(* Properties of the background task running alone (BgSpec) *)

\* the budget holds min_chunks_per_size fragments of nominal size of every class
BudgetHoldsMinimum ==
    /\ max_bytes > 0
    /\ max_bytes >= config.min_chunks_per_size
                      * (target_bytes("Small") + target_bytes("Medium")
                         + target_bytes("Large") + target_bytes("XLarge"))

AllAtMinimum == \A s \in ChunkSize : CountOf(chunks, s) >= config.min_chunks_per_size

ConvergedIfBudgetHolds == BudgetHoldsMinimum => AllAtMinimum

Grown == {s \in ChunkSize : CountOf(chunks', s) > CountOf(chunks, s)}

\* the step of a tick that inspects the pool and generates the batch
Inspects == bg.pc = "needed" /\ bg'.pc = "insert"

BatchWithinDeficit ==
    LET size == Head(bg'.needed).size
        current == CountOf(chunks, size)
        minimum == config.min_chunks_per_size
    IN /\ current < minimum
       /\ Len(bg'.new_chunks) <= 3
       /\ Len(bg'.new_chunks) <= minimum - current

OneClassServed ==
    /\ bg.pc = "insert" /\ bg'.pc = "yield"
    /\ Grown = {Head(bg.needed).size}
    /\ \A s \in Grown : CountOf(chunks', s) = CountOf(chunks, s) + Len(bg.new_chunks)
    /\ \A s \in DOMAIN chunks \ Grown : chunks'[s] = chunks[s]

\* C22: a background tick inserts into at most one class, a class that was
\* below its minimum when the tick inspected the pool, and inserts at most
\* min(3, minimum - count at inspection) fragments; a tick reaches its
\* insert only from its inspection.
C22_OneBoundedBatchPerTick ==
    [][/\ Inspects => BatchWithinDeficit
       /\ Grown # {} => OneClassServed
       /\ bg'.pc = "insert" => bg.pc \in {"needed", "insert"}]_vars

C22_Witness ==
    /\ bg.pc = "yield"
    /\ config.min_chunks_per_size = 5
    /\ Len(bg.new_chunks) = 3
    /\ CountOf(chunks, Head(bg.needed).size) = 3

\* the class that holds the pooled fragment of the given identity
ClassOf(id) ==
    CHOOSE s \in DOMAIN chunks : \E i \in 1..Len(chunks[s]) : chunks[s][i].id = id

PooledIds == UNION {{chunks[s][i].id : i \in 1..Len(chunks[s])} : s \in DOMAIN chunks}

\* the tick has generated its batch and is about to insert it
Serving == bg.pc = "insert"

Served == Head(bg.needed).size

\* the identity of the last fragment generated before this tick's batch
PreviousId == bg.new_chunks[1].id - 1

\* C23: when several classes are below their minimum, consecutive generating
\* ticks serve different classes: the class served by a tick is not the
\* class served by the generating tick before it.
C23_ConsecutiveTicksServeDifferentClasses ==
    (Serving /\ Len(bg.needed) >= 2 /\ PreviousId \in PooledIds) =>
        ClassOf(PreviousId) # Served

PositionOf(size) == CHOOSE i \in 1..Len(all) : all[i] = size

\* C23 (amended): a generating tick serves the first class, in the order
\* Small, Medium, Large, XLarge, that is below its minimum: every class
\* before the served one holds its minimum, so a class is refilled to its
\* minimum before the next one is touched.
C23_FirstDeficientClassServed ==
    Serving =>
        /\ CountOf(chunks, Served) < config.min_chunks_per_size
        /\ \A i \in 1..Len(all) :
              i < PositionOf(Served) =>
                 CountOf(chunks, all[i]) >= config.min_chunks_per_size

\* a second consecutive tick for Medium while Large and XLarge are empty
C23_Witness ==
    /\ Serving
    /\ Served = "Medium"
    /\ Len(bg.needed) >= 2
    /\ PreviousId \in PooledIds
    /\ ClassOf(PreviousId) = "Medium"
    /\ CountOf(chunks, "Large") = 0

\* the pool holds at least its budget
BudgetUsedUp == estimate_memory_usage(chunks) >= config.max_memory_mb * 1024 * 1024

LeavesStartup == bg.fast_startup /\ ~bg'.fast_startup

PhaseStep ==
    /\ LeavesStartup => (AllAtMinimum \/ BudgetUsedUp)
    /\ LeavesStartup => (bg.pc \in {"check_mem", "check_low"} /\ bg'.pc = "sleep")
    /\ (bg.pc = "check_low" /\ AllAtMinimum) => ~bg'.fast_startup
    /\ (bg.pc = "check_mem" /\ BudgetUsedUp) => ~bg'.fast_startup
    /\ ~bg.fast_startup => ~bg'.fast_startup

====
